---- MODULE Spec2Model ----
(***************************************************************************)
(* Model of docker/python-sandbox/executor.py: the driver main() and       *)
(* execute_code(), one process invocation handling one request.            *)
(*                                                                         *)
(* The control state pc follows the statements of the source.  SIGALRM is  *)
(* asynchronous: while the alarm is pending, timeout_handler may run       *)
(* between any two steps of the main thread and raise TimeoutError there.  *)
(* The untrusted code and test are abstract programs: they write to        *)
(* stdout / stderr and then complete, raise, or spin forever, and they may *)
(* intercept an exception raised inside them (try/except around the body). *)
(***************************************************************************)
EXTENDS Integers, Sequences, FiniteSets

\* ---------------------------------------------------------------- bounds
MaxOut == 1     \* most characters one snippet writes to stdout
MaxErr == 1     \* most characters one snippet writes to stderr

\* ------------------------------------------------------------- constants
TIMEOUT_SECONDS == 30

None == "<None>"            \* Python's None (json null)
NoExc == [kind |-> "none", msg |-> ""]

\* ------------------------------------------------------ untrusted programs
\* How the body of a snippet ends once its writes are done.
Ends == {"complete", "TimeoutError", "AssertionError", "AssertionErrorMsg",
         "Exception", "SystemExit", "loop"}

\* A snippet that does not compile: exec() raises SyntaxError before running it.
BadSyntax == [parses |-> FALSE, outs |-> 0, errs |-> 0, swallows |-> FALSE, end |-> "complete", names |-> "none"]

\* The empty string "": compiles, does nothing, completes.
EmptyProg == [parses |-> TRUE, outs |-> 0, errs |-> 0, swallows |-> FALSE, end |-> "complete", names |-> "none"]

\* What a snippet does with names: nothing, bind a name of its own (x = 1),
\* read the name code binds, or read a variable of the driver.
NameUses == {"none", "def", "ref", "refdriver"}

\* A local variable of execute_code, not a builtin.
DriverName == "stdout_capture"

Programs ==
    {BadSyntax} \cup
    [parses : {TRUE}, outs : 0..MaxOut, errs : 0..MaxErr, swallows : BOOLEAN,
     end : Ends, names : {"none"}] \cup
    [parses : {TRUE}, outs : {0}, errs : {0}, swallows : {FALSE},
     end : {"complete"}, names : NameUses \ {"none"}]

\* Steps a snippet spends on names.
NameSteps(p) == IF p.names = "none" THEN 0 ELSE 1

\* The exception a snippet raises when its body ends with a raise.
EndExc(end) ==
    CASE end = "TimeoutError"      -> [kind |-> "TimeoutError", msg |-> "timed out"]
      [] end = "AssertionError"    -> [kind |-> "AssertionError", msg |-> ""]
      [] end = "AssertionErrorMsg" -> [kind |-> "AssertionError", msg |-> "bad x"]
      [] end = "Exception"         -> [kind |-> "ZeroDivisionError", msg |-> "division by zero"]
      [] end = "SystemExit"        -> [kind |-> "SystemExit", msg |-> "0"]
      [] OTHER                     -> NoExc

\* isinstance(e, Exception): SystemExit derives from BaseException only.
IsException(e) == e.kind \in {"SyntaxError", "TimeoutError", "AssertionError",
                              "ZeroDivisionError", "AttributeError", "JSONDecodeError",
                              "NameError"}

\* ------------------------------------------------------------------ stdin
Absent == [parses |-> FALSE, outs |-> 0, errs |-> 0, swallows |-> FALSE, end |-> "absent", names |-> "none"]
Fields == Programs \cup {Absent}

Inputs == {[kind |-> "malformed"], [kind |-> "nonobject"]} \cup
          [kind : {"object"}, code : Fields, test : Fields]

\* dict.get(key, ""): a missing field defaults to the empty string.
Get(field) == IF field = Absent THEN EmptyProg ELSE field

\* ------------------------------------------------------------------ state
VARIABLES
    hasSIGALRM,      \* hasattr(signal, 'SIGALRM') on this platform
    stdin,           \* what the process reads from standard input
    pc,              \* position of the main thread
    code, test_code, \* the arguments of execute_code
    result,          \* execute_code's result dict
    stdout_capture, stderr_capture,   \* the two StringIO buffers
    sys_stdout, sys_stderr,           \* where sys.stdout / sys.stderr point
    alarm,           \* "unset" | "pending" | "fired" | "cancelled"
    exc,             \* the exception in flight (or caught as e), NoExc if none
    ip,              \* writes the running snippet has done
    tick,            \* iteration parity of a spinning snippet
    proc_stdout,     \* lines written to the process's real standard output
    firedAt,         \* history: pc at which the alarm fired ("never" if not)
    completed,       \* history: snippets that ran to completion (0..2)
    wrote_out, wrote_err,  \* history: what the snippets wrote to each stream
    namespace,       \* the keys of the namespace dict of line 40
    run,             \* which run of the pair this is (1 or 2)
    first            \* what the first run returned, once there is a second

vars == <<hasSIGALRM, stdin, pc, code, test_code, result, stdout_capture,
          stderr_capture, sys_stdout, sys_stderr, alarm, exc, ip, tick,
          proc_stdout, firedAt, completed, wrote_out, wrote_err, namespace,
          run, first>>

harness == <<run, first>>

ghost == <<firedAt, completed, wrote_out, wrote_err>>

NoResult == [passed |-> FALSE, error |-> None, error_type |-> None,
             output |-> <<>>, test_output |-> <<>>]

NoFirst == [result |-> NoResult, firedAt |-> "never", platform |-> FALSE]

Init ==
    /\ hasSIGALRM \in BOOLEAN
    /\ stdin \in Inputs
    /\ pc = "m_read"
    /\ code = EmptyProg
    /\ test_code = EmptyProg
    /\ result = NoResult
    /\ stdout_capture = <<>>
    /\ stderr_capture = <<>>
    /\ sys_stdout = "real"
    /\ sys_stderr = "real"
    /\ alarm = "unset"
    /\ exc = NoExc
    /\ ip = 0
    /\ tick = 0
    /\ proc_stdout = <<>>
    /\ firedAt = "never"
    /\ completed = 0
    /\ wrote_out = <<>>
    /\ wrote_err = <<>>
    /\ namespace = {}
    /\ run = 1
    /\ first = NoFirst

\* --------------------------------------------------------------- printing
\* json.dumps of one value: False/True -> false/true, None -> null.
JsonValue(k, v) ==
    IF k = "passed" THEN (IF v THEN "true" ELSE "false")
    ELSE IF k \in {"output", "test_output"} THEN v
    ELSE IF v = None THEN "null" ELSE v

\* json.dumps(d): one JSON object with the keys of d.
Dumps(d) == [k \in DOMAIN d |-> JsonValue(k, d[k])]

\* print(line): one line to wherever sys.stdout points at that moment.
Emit(line) ==
    IF sys_stdout = "real"
    THEN /\ proc_stdout' = Append(proc_stdout, line)
         /\ UNCHANGED stdout_capture
    ELSE /\ stdout_capture' = Append(stdout_capture, "<response line>")
         /\ UNCHANGED proc_stdout

\* ------------------------------------------------------------------ main()
\* line 74: input_data = json.loads(sys.stdin.read())
MainRead ==
    /\ pc = "m_read"
    /\ IF stdin.kind = "malformed"
       THEN /\ exc' = [kind |-> "JSONDecodeError", msg |-> "Expecting value"]
            /\ pc' = "m_except"
       ELSE /\ exc' = exc
            /\ pc' = "m_get"
    /\ UNCHANGED <<hasSIGALRM, stdin, code, test_code, result, stdout_capture,
                   stderr_capture, sys_stdout, sys_stderr, alarm, ip, tick,
                   proc_stdout, ghost,
                   namespace, harness>>

\* lines 75-76: code = input_data.get("code", ""); test_code = input_data.get("test", "")
MainGet ==
    /\ pc = "m_get"
    /\ IF stdin.kind = "nonobject"
       THEN /\ exc' = [kind |-> "AttributeError", msg |-> "object has no attribute 'get'"]
            /\ pc' = "m_except"
            /\ UNCHANGED <<code, test_code>>
       ELSE /\ code' = Get(stdin.code)
            /\ test_code' = Get(stdin.test)
            /\ exc' = exc
            /\ pc' = "e_init"
    /\ UNCHANGED <<hasSIGALRM, stdin, result, stdout_capture, stderr_capture,
                   sys_stdout, sys_stderr, alarm, ip, tick, proc_stdout, ghost,
                   namespace, harness>>

\* line 79: print(json.dumps(result)); then main returns and the process exits
MainEmit ==
    /\ pc = "m_print"
    /\ Emit(Dumps(result))
    /\ pc' = "exit"
    /\ UNCHANGED <<hasSIGALRM, stdin, code, test_code, result, stderr_capture,
                   sys_stdout, sys_stderr, alarm, exc, ip, tick, ghost,
                   namespace, harness>>

\* A malformed request reported under the catch-all tag.
InputFailureAsExecutor(e) ==
    [passed |-> FALSE, error |-> "Invalid JSON input: Expecting value", error_type |-> "executor"]

\* The driver-level failure responses of lines 82-86 and 88-92.
InputFailure(e) ==
    [passed |-> FALSE, error |-> "Invalid JSON input: Expecting value", error_type |-> "input"]

ExecutorFailure(e) ==
    [passed |-> FALSE, error |-> e.msg, error_type |-> "executor"]

\* lines 81-92: the except clauses of main; an exception neither clause
\* matches leaves main uncaught and the process exits without printing.
MainExcept ==
    /\ pc = "m_except"
    /\ \/ /\ exc.kind = "JSONDecodeError"
          /\ Emit(Dumps(InputFailure(exc)))
          /\ exc' = NoExc
       \/ /\ exc.kind # "JSONDecodeError"
          /\ IsException(exc)
          /\ Emit(Dumps(ExecutorFailure(exc)))
          /\ exc' = NoExc
       \/ /\ ~IsException(exc)
          /\ UNCHANGED <<proc_stdout, stdout_capture, exc>>
    /\ pc' = "exit"
    /\ UNCHANGED <<hasSIGALRM, stdin, code, test_code, result, stderr_capture,
                   sys_stdout, sys_stderr, alarm, ip, tick, ghost,
                   namespace, harness>>


\* ---------------------------------------------------------- execute_code()
\* An invocation that goes on writing into the stdout buffer it finds.
ExecInitStaleBuffer ==
    /\ pc = "e_init"
    /\ result' = NoResult
    /\ stderr_capture' = <<>>
    /\ pc' = "e_arm"
    /\ UNCHANGED <<hasSIGALRM, stdin, code, test_code, sys_stdout, sys_stderr,
                   alarm, exc, ip, tick, proc_stdout, ghost, namespace, harness,
                   stdout_capture>>

\* lines 21-31: the result dict and the two capture buffers
ExecInit ==
    /\ pc = "e_init"
    /\ result' = NoResult
    /\ stdout_capture' = <<>>
    /\ stderr_capture' = <<>>
    /\ pc' = "e_arm"
    /\ UNCHANGED <<hasSIGALRM, stdin, code, test_code, sys_stdout, sys_stderr,
                   alarm, exc, ip, tick, proc_stdout, ghost,
                   namespace, harness>>

\* An executor that arms the alarm without asking whether SIGALRM exists.
ExecArmAlways ==
    /\ pc = "e_arm"
    /\ alarm' = "pending"
    /\ pc' = "e_ns"
    /\ UNCHANGED <<hasSIGALRM, stdin, code, test_code, result, stdout_capture,
                   stderr_capture, sys_stdout, sys_stderr, exc, ip, tick,
                   proc_stdout, ghost, namespace, harness>>

\* lines 35-37: install timeout_handler and arm the alarm, where SIGALRM exists
ExecArm ==
    /\ pc = "e_arm"
    /\ alarm' = IF hasSIGALRM THEN "pending" ELSE alarm
    /\ pc' = "e_ns"
    /\ UNCHANGED <<hasSIGALRM, stdin, code, test_code, result, stdout_capture,
                   stderr_capture, sys_stdout, sys_stderr, exc, ip, tick,
                   proc_stdout, ghost,
                   namespace, harness>>

\* An invocation that adds the builtins to the namespace it finds.
ExecNamespaceShared ==
    /\ pc = "e_ns"
    /\ namespace' = namespace \cup {"__builtins__"}
    /\ pc' = "e_enter_out"
    /\ UNCHANGED <<hasSIGALRM, stdin, code, test_code, result, stdout_capture,
                   stderr_capture, sys_stdout, sys_stderr, alarm, exc, ip, tick,
                   proc_stdout, ghost, harness>>

\* line 40: namespace = {"__builtins__": __builtins__}
ExecNamespace ==
    /\ pc = "e_ns"
    /\ namespace' = {"__builtins__"}
    /\ pc' = "e_enter_out"
    /\ UNCHANGED <<hasSIGALRM, stdin, code, test_code, result, stdout_capture,
                   stderr_capture, sys_stdout, sys_stderr, alarm, exc, ip, tick,
                   proc_stdout, ghost,
                   harness>>

\* line 43, redirect_stdout(stdout_capture).__enter__: sys.stdout = buffer
EnterRedirectOut ==
    /\ pc = "e_enter_out"
    /\ sys_stdout' = "capture"
    /\ pc' = "e_enter_err"
    /\ UNCHANGED <<hasSIGALRM, stdin, code, test_code, result, stdout_capture,
                   stderr_capture, sys_stderr, alarm, exc, ip, tick,
                   proc_stdout, ghost,
                   namespace, harness>>

\* line 43, redirect_stderr(stderr_capture).__enter__: sys.stderr = buffer
EnterRedirectErr ==
    /\ pc = "e_enter_err"
    /\ sys_stderr' = "capture"
    /\ ip' = 0
    /\ pc' = "e_code"
    /\ UNCHANGED <<hasSIGALRM, stdin, code, test_code, result, stdout_capture,
                   stderr_capture, sys_stdout, alarm, exc, tick,
                   proc_stdout, ghost,
                   namespace, harness>>

\* One step of exec(p, namespace) at position here; ch is what p prints and
\* the name p binds.  A snippet that does not compile raises SyntaxError
\* before it runs; one that compiles writes p.outs characters to sys.stdout,
\* p.errs to sys.stderr, uses names as p.names says (a name that is not a
\* key of the namespace raises NameError), and then ends as p.end says.
RunSnippet(p, here, next, ch) ==
    /\ pc = here
    /\ \/ /\ ~p.parses
          /\ exc' = [kind |-> "SyntaxError", msg |-> "invalid syntax"]
          /\ pc' = "e_exit_err"
          /\ UNCHANGED <<stdout_capture, stderr_capture, proc_stdout, ip, tick,
                         ghost, namespace>>
       \/ /\ p.parses
          /\ ip < p.outs
          /\ IF sys_stdout = "capture"
             THEN stdout_capture' = Append(stdout_capture, ch) /\ UNCHANGED proc_stdout
             ELSE proc_stdout' = Append(proc_stdout, ch) /\ UNCHANGED stdout_capture
          /\ wrote_out' = Append(wrote_out, ch)
          /\ ip' = ip + 1
          /\ UNCHANGED <<stderr_capture, exc, pc, tick, firedAt, completed,
                         wrote_err, namespace>>
       \/ /\ p.parses
          /\ ip >= p.outs
          /\ ip < p.outs + p.errs
          /\ IF sys_stderr = "capture"
             THEN stderr_capture' = Append(stderr_capture, ch)
             ELSE UNCHANGED stderr_capture
          /\ wrote_err' = Append(wrote_err, ch)
          /\ ip' = ip + 1
          /\ UNCHANGED <<stdout_capture, proc_stdout, exc, pc, tick, firedAt,
                         completed, wrote_out, namespace>>
       \/ /\ p.parses
          /\ ip = p.outs + p.errs
          /\ p.names = "def"
          /\ namespace' = namespace \cup {ch}
          /\ ip' = ip + 1
          /\ UNCHANGED <<stdout_capture, stderr_capture, proc_stdout, exc, pc,
                         tick, ghost>>
       \/ /\ p.parses
          /\ ip = p.outs + p.errs
          /\ p.names \in {"ref", "refdriver"}
          /\ LET name == IF p.names = "ref" THEN "c" ELSE DriverName IN
             IF name \in namespace
             THEN /\ ip' = ip + 1
                  /\ UNCHANGED <<exc, pc>>
             ELSE /\ exc' = [kind |-> "NameError", msg |-> "name is not defined"]
                  /\ pc' = "e_exit_err"
                  /\ UNCHANGED ip
          /\ UNCHANGED <<stdout_capture, stderr_capture, proc_stdout, tick,
                         ghost, namespace>>
       \/ /\ p.parses
          /\ ip = p.outs + p.errs + NameSteps(p)
          /\ p.end = "complete"
          /\ pc' = next
          /\ ip' = 0
          /\ completed' = completed + 1
          /\ UNCHANGED <<stdout_capture, stderr_capture, proc_stdout, exc, tick,
                         firedAt, wrote_out, wrote_err, namespace>>
       \/ /\ p.parses
          /\ ip = p.outs + p.errs + NameSteps(p)
          /\ p.end = "loop"
          /\ tick' = 1 - tick
          /\ UNCHANGED <<stdout_capture, stderr_capture, proc_stdout, exc, pc, ip,
                         ghost, namespace>>
       \/ /\ p.parses
          /\ ip = p.outs + p.errs + NameSteps(p)
          /\ p.end \notin {"complete", "loop"}
          /\ exc' = EndExc(p.end)
          /\ pc' = "e_exit_err"
          /\ UNCHANGED <<stdout_capture, stderr_capture, proc_stdout, ip, tick,
                         ghost, namespace>>
    /\ UNCHANGED <<hasSIGALRM, stdin, code, test_code, result, sys_stdout,
                   sys_stderr, alarm, harness>>

\* An executor that goes on to the test without having run code to its end.
ExecCodeSkipped ==
    /\ pc = "e_code"
    /\ pc' = "e_test"
    /\ ip' = 0
    /\ UNCHANGED <<hasSIGALRM, stdin, code, test_code, result, stdout_capture,
                   stderr_capture, sys_stdout, sys_stderr, alarm, exc, tick,
                   proc_stdout, ghost, namespace, harness>>

\* line 44: exec(code, namespace)
ExecCode == RunSnippet(code, "e_code", "e_test", "c")

\* line 47: exec(test_code, namespace)
ExecTest == RunSnippet(test_code, "e_test", "e_exit_err", "t")

\* leaving the with block, redirect_stderr.__exit__: sys.stderr restored
ExitRedirectErr ==
    /\ pc = "e_exit_err"
    /\ sys_stderr' = "real"
    /\ pc' = "e_exit_out"
    /\ UNCHANGED <<hasSIGALRM, stdin, code, test_code, result, stdout_capture,
                   stderr_capture, sys_stdout, alarm, exc, ip, tick,
                   proc_stdout, ghost,
                   namespace, harness>>

\* leaving the with block, redirect_stdout.__exit__: sys.stdout restored;
\* neither __exit__ suppresses the exception in flight
ExitRedirectOut ==
    /\ pc = "e_exit_out"
    /\ sys_stdout' = "real"
    /\ pc' = IF exc = NoExc THEN "e_passed" ELSE "e_except"
    /\ UNCHANGED <<hasSIGALRM, stdin, code, test_code, result, stdout_capture,
                   stderr_capture, sys_stderr, alarm, exc, ip, tick,
                   proc_stdout, ghost,
                   namespace, harness>>

\* line 49: result["passed"] = True
SetPassed ==
    /\ pc = "e_passed"
    /\ result' = [result EXCEPT !.passed = TRUE]
    /\ pc' = "e_output"
    /\ UNCHANGED <<hasSIGALRM, stdin, code, test_code, stdout_capture,
                   stderr_capture, sys_stdout, sys_stderr, alarm, exc, ip, tick,
                   proc_stdout, ghost,
                   namespace, harness>>

\* line 50: result["output"] = stdout_capture.getvalue()
SetOutput ==
    /\ pc = "e_output"
    /\ result' = [result EXCEPT !.output = stdout_capture]
    /\ pc' = "f_disarm"
    /\ UNCHANGED <<hasSIGALRM, stdin, code, test_code, stdout_capture,
                   stderr_capture, sys_stdout, sys_stderr, alarm, exc, ip, tick,
                   proc_stdout, ghost,
                   namespace, harness>>

\* lines 52, 55, 58, 61: the first except clause the exception is an instance of
Classify(e) ==
    IF e.kind = "SyntaxError" THEN "syntax"
    ELSE IF e.kind = "TimeoutError" THEN "timeout"
    ELSE IF e.kind = "AssertionError" THEN "assertion"
    ELSE IF IsException(e) THEN "runtime"
    ELSE "uncaught"

\* lines 53, 56, 59, 62: the text stored in result["error"]
HandlerError(e) ==
    CASE Classify(e) = "syntax"    -> e.msg
      [] Classify(e) = "timeout"   -> e.msg
      [] Classify(e) = "assertion" -> (IF e.msg = "" THEN "Assertion failed" ELSE e.msg)
      [] e.kind = "NameError"      -> "Traceback (most recent call last): NameError: name is not defined"
      [] OTHER                     -> "Traceback (most recent call last): ZeroDivisionError: division by zero"

\* lines 52-63: an exception has left the try body; pick the except clause.
\* One that matches no clause (not an Exception) goes on to the finally.
ExceptDispatch ==
    /\ pc = "e_except"
    /\ pc' = IF Classify(exc) = "uncaught" THEN "f_disarm" ELSE "h_error"
    /\ UNCHANGED <<hasSIGALRM, stdin, code, test_code, result, stdout_capture,
                   stderr_capture, sys_stdout, sys_stderr, alarm, exc, ip, tick,
                   proc_stdout, ghost,
                   namespace, harness>>

\* first statement of the matching handler: result["error"] = ...
HandlerSetError ==
    /\ pc = "h_error"
    /\ result' = [result EXCEPT !.error = HandlerError(exc)]
    /\ pc' = "h_type"
    /\ UNCHANGED <<hasSIGALRM, stdin, code, test_code, stdout_capture,
                   stderr_capture, sys_stdout, sys_stderr, alarm, exc, ip, tick,
                   proc_stdout, ghost,
                   namespace, harness>>

\* A handler that also reports what was printed before the failure.
HandlerSetTypeAndOutput ==
    /\ pc = "h_type"
    /\ result' = [result EXCEPT !.error_type = Classify(exc),
                                !.output = stdout_capture]
    /\ exc' = NoExc
    /\ pc' = "f_disarm"
    /\ UNCHANGED <<hasSIGALRM, stdin, code, test_code, stdout_capture,
                   stderr_capture, sys_stdout, sys_stderr, alarm, ip, tick,
                   proc_stdout, ghost, namespace, harness>>

\* second statement of the matching handler: result["error_type"] = ...;
\* the exception is handled
HandlerSetType ==
    /\ pc = "h_type"
    /\ result' = [result EXCEPT !.error_type = Classify(exc)]
    /\ exc' = NoExc
    /\ pc' = "f_disarm"
    /\ UNCHANGED <<hasSIGALRM, stdin, code, test_code, stdout_capture,
                   stderr_capture, sys_stdout, sys_stderr, alarm, ip, tick,
                   proc_stdout, ghost,
                   namespace, harness>>

\* A finally that leaves the alarm as it found it.
DisarmForgotten(a) == a

\* signal.alarm(0): cancels a pending alarm
Disarm(a) == IF a = "pending" THEN "cancelled" ELSE a

\* lines 65-66, in the finally: disarm the alarm, where SIGALRM exists
FinallyDisarm ==
    /\ pc = "f_disarm"
    /\ alarm' = IF hasSIGALRM THEN Disarm(alarm) ELSE alarm
    /\ pc' = "f_testout"
    /\ UNCHANGED <<hasSIGALRM, stdin, code, test_code, result, stdout_capture,
                   stderr_capture, sys_stdout, sys_stderr, exc, ip, tick,
                   proc_stdout, ghost,
                   namespace, harness>>

\* line 67, in the finally: result["test_output"] = stderr_capture.getvalue();
\* then an exception still in flight leaves execute_code for main's handlers
FinallyTestOutput ==
    /\ pc = "f_testout"
    /\ result' = [result EXCEPT !.test_output = stderr_capture]
    /\ pc' = IF exc = NoExc THEN "e_return" ELSE "m_except"
    /\ UNCHANGED <<hasSIGALRM, stdin, code, test_code, stdout_capture,
                   stderr_capture, sys_stdout, sys_stderr, alarm, exc, ip, tick,
                   proc_stdout, ghost,
                   namespace, harness>>

\* line 69 and the assignment of line 78: return result
ExecReturn ==
    /\ pc = "e_return"
    /\ pc' = "m_print"
    /\ UNCHANGED <<hasSIGALRM, stdin, code, test_code, result, stdout_capture,
                   stderr_capture, sys_stdout, sys_stderr, alarm, exc, ip, tick,
                   proc_stdout, ghost,
                   namespace, harness>>

\* ------------------------------------------------------- timeout_handler()
\* lines 16-17: raise TimeoutError("Execution timed out")
TimeoutRaised == [kind |-> "TimeoutError", msg |-> "Execution timed out"]

\* The snippet being evaluated at pc.
Running == IF pc = "e_code" THEN code ELSE test_code

\* SIGALRM is delivered while the alarm is pending: timeout_handler runs in
\* the main thread before its next step and raises TimeoutError there,
\* replacing any exception already in flight.  Where the error goes depends
\* on the statement it interrupts:
\*   try body outside the with block   -> the except clauses
\*   inside a redirect's __enter__     -> the redirect may or may not have
\*                                        been installed, and its __exit__
\*                                        never runs
\*   inside exec()                     -> the snippet's own handler if it has
\*                                        one, else out through the with block
\*   inside a redirect's __exit__      -> the stream may or may not have been
\*                                        restored
\*   inside an except clause           -> the finally, then out of execute_code
\*   inside the finally                -> out of execute_code at once
AlarmFire ==
    /\ alarm = "pending"
    /\ alarm' = "fired"
    /\ firedAt' = pc
    /\ \/ /\ pc \in {"e_ns", "e_passed", "e_output"}
          /\ exc' = TimeoutRaised
          /\ pc' = "e_except"
          /\ UNCHANGED <<sys_stdout, sys_stderr>>
       \/ /\ pc = "e_enter_out"
          /\ sys_stdout' \in {"real", "capture"}
          /\ exc' = TimeoutRaised
          /\ pc' = "e_except"
          /\ UNCHANGED sys_stderr
       \/ /\ pc = "e_enter_err"
          /\ sys_stderr' \in {"real", "capture"}
          /\ exc' = TimeoutRaised
          /\ pc' = "e_exit_out"
          /\ UNCHANGED sys_stdout
       \/ /\ pc \in {"e_code", "e_test"}
          /\ Running.swallows
          /\ UNCHANGED <<exc, pc, sys_stdout, sys_stderr>>
       \/ /\ pc \in {"e_code", "e_test"}
          /\ ~Running.swallows
          /\ exc' = TimeoutRaised
          /\ pc' = "e_exit_err"
          /\ UNCHANGED <<sys_stdout, sys_stderr>>
       \/ /\ pc = "e_exit_err"
          /\ sys_stderr' \in {"real", "capture"}
          /\ exc' = TimeoutRaised
          /\ pc' = "e_exit_out"
          /\ UNCHANGED sys_stdout
       \/ /\ pc = "e_exit_out"
          /\ sys_stdout' \in {"real", "capture"}
          /\ exc' = TimeoutRaised
          /\ pc' = "e_except"
          /\ UNCHANGED sys_stderr
       \/ /\ pc \in {"e_except", "h_error", "h_type"}
          /\ exc' = TimeoutRaised
          /\ pc' = "f_disarm"
          /\ UNCHANGED <<sys_stdout, sys_stderr>>
       \/ /\ pc = "f_disarm"
          /\ exc' = TimeoutRaised
          /\ pc' = "m_except"
          /\ UNCHANGED <<sys_stdout, sys_stderr>>
    /\ UNCHANGED <<hasSIGALRM, stdin, code, test_code, result, stdout_capture,
                   stderr_capture, ip, tick, proc_stdout, completed, wrote_out,
                   wrote_err, namespace, harness>>

\* ---------------------------------------------------------- specification
\* The steps of the main thread.
MainThread ==
    \/ MainRead \/ MainGet \/ MainEmit \/ MainExcept
    \/ ExecInit \/ ExecArm \/ ExecNamespace
    \/ EnterRedirectOut \/ EnterRedirectErr
    \/ ExecCode \/ ExecTest
    \/ ExitRedirectErr \/ ExitRedirectOut
    \/ SetPassed \/ SetOutput
    \/ ExceptDispatch \/ HandlerSetError \/ HandlerSetType
    \/ FinallyDisarm \/ FinallyTestOutput \/ ExecReturn

Next == MainThread \/ AlarmFire

Spec == Init /\ [][Next]_vars

\* The same pair is run a second time (one process per request): a new
\* invocation of execute_code with the same arguments in a fresh process,
\* on either platform.  What the first run returned is kept for comparison.
\* Nothing the first invocation built is reset here: lines 21-40 build the
\* result dict, the buffers and the namespace anew.
RunAgain ==
    /\ pc = "m_print"
    /\ run = 1
    /\ first' = [result |-> result, firedAt |-> firedAt, platform |-> hasSIGALRM]
    /\ run' = 2
    /\ hasSIGALRM' \in BOOLEAN
    /\ pc' = "e_init"
    /\ sys_stdout' = "real"
    /\ sys_stderr' = "real"
    /\ alarm' = "unset"
    /\ exc' = NoExc
    /\ ip' = 0
    /\ tick' = 0
    /\ firedAt' = "never"
    /\ completed' = 0
    /\ wrote_out' = <<>>
    /\ wrote_err' = <<>>
    /\ UNCHANGED <<stdin, code, test_code, result, stdout_capture,
                   stderr_capture, proc_stdout, namespace>>

\* Runs of one pair, twice.
TwiceSpec == Init /\ [][Next \/ RunAgain]_vars

\* The interpreter keeps running the main thread, and the kernel delivers
\* SIGALRM when an alarm stays pending.
FairSpec == Spec /\ WF_vars(MainThread) /\ WF_vars(AlarmFire)

TypeOK ==
    /\ pc \in {"m_read", "m_get", "m_print", "m_except", "exit", "e_init", "e_arm",
               "e_ns", "e_enter_out", "e_enter_err", "e_code", "e_test",
               "e_exit_err", "e_exit_out", "e_passed", "e_output", "e_except",
               "h_error", "h_type", "f_disarm", "f_testout", "e_return"}
    /\ alarm \in {"unset", "pending", "fired", "cancelled"}
    /\ code \in Programs /\ test_code \in Programs
    /\ completed \in 0..2
    /\ Len(proc_stdout) <= 2
    /\ namespace \subseteq {"__builtins__", "c", "t"}
    /\ run \in 1..2

\* ------------------------------------------------------------ vocabulary
\* The positions inside execute_code.
ExecPcs == {"e_init", "e_arm", "e_ns", "e_enter_out", "e_enter_err", "e_code",
            "e_test", "e_exit_err", "e_exit_out", "e_passed", "e_output",
            "e_except", "h_error", "h_type", "f_disarm", "f_testout", "e_return"}

\* execute_code has returned its result to main (line 78 completed).
Returned == pc = "m_print"

\* The alarm fired before both snippets had run to completion.
FiredBeforeCompletion ==
    firedAt \in {"e_ns", "e_enter_out", "e_enter_err", "e_code", "e_test"}

\* The alarm fired while exec() was evaluating code or test.
FiredDuringEvaluation == firedAt \in {"e_code", "e_test"}

\* The snippet whose evaluation did not complete.
FailedSnippet == IF completed = 0 THEN code ELSE test_code

\* What a passing run's snippets print: code's output, then test's.
WrittenBy(p, ch) == [i \in 1..p.outs |-> ch]

\* ------------------------------------------------------------------ claims

\* C1: when the process has exited, exactly one line has been written to its
\* standard output, whatever stdin held and whatever the code and test did.
C1_ExactlyOneLine == pc = "exit" => Len(proc_stdout) = 1

\* C2: control leaves execute_code only by returning the result dict; no
\* error raised while evaluating code and test propagates out of it.
C2_NoErrorEscapes ==
    [][(pc \in ExecPcs /\ pc' \notin ExecPcs) => pc' = "m_print"]_vars

\* C3: in every returned result exactly one of "passed is true" and
\* "error_type is populated" holds.
C3_PassedXorErrorType ==
    Returned => (result.passed <=> result.error_type = None)

\* C4: a returned result has passed true iff code and test both ran to
\* completion and the alarm did not fire before they completed.
C4_PassedIffCompleted ==
    Returned => (result.passed <=> (completed = 2 /\ ~FiredBeforeCompletion))

\* C5: on a platform with alarm support every invocation of execute_code
\* eventually ends: control leaves execute_code, whatever code and test do.
C5_AlwaysDone ==
    (pc = "e_init" /\ hasSIGALRM) ~> (pc \notin ExecPcs)

\* C6: once control has left execute_code, by return or by an escaping
\* error, no alarm is pending, so timeout_handler cannot run in the driver.
C6_AlarmDisarmed == pc \notin ExecPcs => alarm # "pending"

\* C6 witness: an error escaped the handlers and the finally cancelled the
\* alarm that was still pending.
C6_Witness == pc = "m_except" /\ alarm = "cancelled" /\ exc.kind = "SystemExit"

\* exec() raised SyntaxError for a snippet that does not compile (the alarm
\* did not fire before the snippet was compiled).
ParseFailed ==
    \/ ~code.parses /\ firedAt \notin {"e_ns", "e_enter_out", "e_enter_err", "e_code"}
    \/ completed = 1 /\ ~test_code.parses /\ firedAt # "e_test"

\* The tag C7 prescribes for a failed evaluation: first match of syntax,
\* timeout, assertion, runtime.
C7_Expected ==
    IF ParseFailed THEN "syntax"
    ELSE IF firedAt # "never" THEN "timeout"
    ELSE IF FailedSnippet.end \in {"AssertionError", "AssertionErrorMsg"} THEN "assertion"
    ELSE "runtime"

\* C7: a failed result carries the tag of the first matching category in the
\* order syntax (parse failure), timeout (alarm fired), assertion (failed
\* assertion), runtime (any other error).
C7_PriorityOrder ==
    (Returned /\ ~result.passed) => result.error_type = C7_Expected

\* C8: when the alarm fires while code or test is being evaluated, the result
\* is passed false, error_type timeout, error "Execution timed out".
C8_TimeoutResult ==
    (Returned /\ FiredDuringEvaluation) =>
        /\ ~result.passed
        /\ result.error_type = "timeout"
        /\ result.error = "Execution timed out"

\* C9: every response printed for a request that reached execute_code carries
\* test_output equal to everything the run wrote to stderr.
C9_TestOutputCaptured ==
    (pc = "exit" /\ stdin.kind = "object" /\ proc_stdout # <<>>) =>
        /\ "test_output" \in DOMAIN proc_stdout[1]
        /\ proc_stdout[1].test_output = wrote_err

\* C10: a returned result with passed true has no error_type and its output
\* is what code wrote to stdout followed by what test wrote.
C10_PassedOutput ==
    (Returned /\ result.passed) =>
        /\ result.error_type = None
        /\ result.output = WrittenBy(code, "c") \o WrittenBy(test_code, "t")

\* The line just written to the process's standard output.
LastLine == proc_stdout'[Len(proc_stdout')]

\* C11: malformed JSON is answered with the 'input' failure, any other error
\* of reading or dispatching (JSON that is not an object) with the 'executor'
\* failure; both omit output and test_output, and a response carries output
\* and test_output exactly when it is a result returned by execute_code.
C11_DriverFailures ==
    /\ [](pc = "exit" =>
            /\ stdin.kind = "malformed" =>
                  proc_stdout = <<[passed |-> "false",
                                   error |-> "Invalid JSON input: Expecting value",
                                   error_type |-> "input"]>>
            /\ stdin.kind = "nonobject" =>
                  proc_stdout = <<[passed |-> "false",
                                   error |-> "object has no attribute 'get'",
                                   error_type |-> "executor"]>>)
    /\ [][proc_stdout' # proc_stdout =>
            /\ ("output" \in DOMAIN LastLine) <=> Returned
            /\ ("test_output" \in DOMAIN LastLine) <=> Returned]_vars

\* C11 witness: the process has answered a malformed request.
C11_Witness == pc = "exit" /\ stdin.kind = "malformed" /\ proc_stdout # <<>>

\* The fields idempotence compares.
Verdict(r) == <<r.passed, r.error_type, r.output>>

\* The second run of the pair has returned, on the platform of the first.
SecondReturned == run = 2 /\ Returned /\ first.platform = hasSIGALRM

BoundByCode == IF code.names = "def" THEN {"c"} ELSE {}

\* C13: when the evaluation of test starts, the namespace holds exactly the
\* builtins and the names code bound in this invocation; no variable of the
\* driver is ever in it.  So a test that reads the name code bound passes,
\* and a test that reads a variable of the driver fails with a NameError.
C13_FreshNamespace ==
    /\ (pc = "e_test" /\ ip = 0) => namespace = {"__builtins__"} \cup BoundByCode
    /\ DriverName \notin namespace
    /\ (Returned /\ firedAt = "never" /\ code.names = "def" /\ test_code.names = "ref")
          => result.passed
    /\ (Returned /\ firedAt = "never" /\ completed = 1 /\ test_code.names = "refdriver")
          => result.error_type = "runtime"

\* C13 witness: in a second invocation test starts with the name code bound,
\* after the first invocation's test had bound a name of its own.
C13_Witness ==
    run = 2 /\ pc = "e_test" /\ ip = 0 /\ "c" \in namespace /\ test_code.names = "def"

C15_RedirectReleased ==
    pc \in {"m_print", "m_except"} => (sys_stdout = "real" /\ sys_stderr = "real")

\* C16: a returned result with passed false has output empty, whatever the
\* snippets printed before failing; output changes only at line 50, on the
\* path where passed has been set to true.
C16_FailedOutputEmpty ==
    /\ []((Returned /\ ~result.passed) => result.output = <<>>)
    /\ [][result'.output # result.output =>
            (pc = "e_output" /\ result.passed)]_vars

\* C16 witness: a failed result was returned although stdout was written.
C16_Witness == Returned /\ ~result.passed /\ wrote_out # <<>>

\* C17: a returned result is tagged 'timeout' only if the alarm fired in that
\* invocation, whatever error the evaluated code or test raised.
C17_TimeoutOnlyIfFired ==
    (Returned /\ result.error_type = "timeout") => firedAt # "never"

\* C18: without SIGALRM no alarm is ever armed, cancelled or fired; and when
\* one pair is run on both platforms and the alarm fires in neither run, the
\* two results agree in all five fields.
C18_PlatformEquivalence ==
    /\ ~hasSIGALRM => (alarm = "unset" /\ firedAt = "never")
    /\ (run = 2 /\ Returned /\ first.platform # hasSIGALRM
           /\ first.firedAt = "never" /\ firedAt = "never")
          => result = first.result

\* C18 witness: a pair that failed after printing has returned on the
\* platform without SIGALRM, after a run with SIGALRM in which the alarm did
\* not fire.
C18_Witness ==
    /\ run = 2 /\ Returned /\ first.platform /\ ~hasSIGALRM
    /\ first.firedAt = "never" /\ ~result.passed /\ wrote_err # <<>>

====
